---- MODULE Spec2Model ----
(***************************************************************************)
(* A model of the signal-to-order pipeline of robinhood-bot:               *)
(*   - the Risk Manager of the VWAP bot (_check_risk_management),          *)
(*   - the PortfolioManager (position sizing and portfolio metrics),       *)
(*   - the decision engine of the SMA-crossover bot.                       *)
(* Python floats are modelled by exact rationals <<n, d>> in lowest terms  *)
(* with d > 0; <<0, 0>> is NaN.  Float rounding error is not modelled.     *)
(***************************************************************************)
EXTENDS Integers, Sequences, FiniteSets, TLC

VARIABLES
    \* --- Risk Manager (TradeBotVWAP._check_risk_management) ---
    vwap_config,      \* config.vwap: the four risk limits
    position,         \* the Position object handed to the Risk Manager
    risk_call,        \* arguments and position fields of the last call
    risk_result,      \* what the last call did: returned True/False or raised
    \* --- PortfolioManager ---
    initial_capital,  \* self.initial_capital
    max_position_size,\* self.max_position_size, a fraction
    positions,        \* self.positions: ticker -> Position
    risk_management,  \* config.risk_management: min/max trade amounts
    returned,         \* what get_portfolio_metrics returned, call by call,
                      \* since the mapping was last mutated
    sizing,           \* the last calculate_position_size call and its result
    \* --- SMA-crossover decision engine ---
    sma_config,       \* the TradingConfig fields the SMA bot reads
    close_prices,     \* the close_price column of the ticker's history, in cents
    sma_bot,          \* "unbuilt", "ready", or the error __init__ raised
    sma_eval,         \* the last make_order_recommendation call and its result
    trade,            \* the last execute_trade call and its outcome
    trade_call,       \* what that call was answered: trading hours, position equity
    history_df,       \* a frame handed to calculate_technical_indicators
    window_period,    \* the period handed with it
    indicators,       \* what the call did: the snapshot returned, or the error
    vwap_signal_config, \* config.vwap: window, thresholds, dynamic switch
    intraday_df,      \* the 5-minute history of the day the market-data API has
    daily_df,         \* the daily history of the year it has
    vwap_eval,        \* the last make_trading_decision call and its result
    clock,            \* datetime.now(timezone.utc), as a count of ticks
    default_timestamp, \* the default of OrderResult.timestamp
    order_results,    \* the OrderResult values created, oldest first
    trade_history,    \* PerformanceAnalyzer.trade_history
    added_trades,     \* the add_trade calls made: the trade passed and the time
    performance_report, \* the last get_performance_report since the last add_trade
    series,           \* the caller's DataFrame handed to the indicator functions
    series_given,     \* that frame as the caller built it
    signal_call,      \* the last indicator function called on it, and its error
    account_cash,     \* what get_current_cash_position() answers
    trade_limits,     \* config.risk_management: min_trade_amount, max_trade_amount
    sma_sizing,       \* the last calculate_position_size call of the SMA strategy
    performance_metrics, \* TradeBotVWAP.performance_metrics
    vwap_trade_history,  \* TradeBotVWAP.trade_history
    metrics_call      \* the last update_performance_metrics call and its error

riskVars == <<vwap_config, position, risk_call, risk_result>>
portfolioVars ==
    <<initial_capital, max_position_size, positions, risk_management, returned, sizing>>
smaVars == <<sma_config, close_prices, sma_bot, sma_eval, trade, trade_call>>
indicatorVars == <<history_df, window_period, indicators>>
vwapVars == <<vwap_signal_config, intraday_df, daily_df, vwap_eval>>
orderVars == <<clock, default_timestamp, order_results>>
analyzerVars == <<trade_history, added_trades, performance_report>>
signalVars == <<series, series_given, signal_call>>
sizerVars == <<account_cash, trade_limits, sma_sizing>>
performanceVars == <<performance_metrics, vwap_trade_history, metrics_call>>
vars ==
    <<riskVars, portfolioVars, smaVars, indicatorVars, vwapVars, orderVars, analyzerVars,
      signalVars,
      sizerVars,
      performanceVars>>

\* what an operation of one component leaves alone
exceptRisk ==
    <<portfolioVars, smaVars, indicatorVars, vwapVars, orderVars, analyzerVars,
      signalVars,
      sizerVars,
      performanceVars>>
exceptPortfolio ==
    <<riskVars, smaVars, indicatorVars, vwapVars, orderVars, analyzerVars,
      signalVars,
      sizerVars,
      performanceVars>>
exceptSMA ==
    <<riskVars, portfolioVars, indicatorVars, vwapVars, orderVars, analyzerVars,
      signalVars,
      sizerVars,
      performanceVars>>
exceptIndicators ==
    <<riskVars, portfolioVars, smaVars, vwapVars, orderVars, analyzerVars,
      signalVars,
      sizerVars,
      performanceVars>>
exceptVWAP == <<portfolioVars, smaVars, indicatorVars, orderVars, analyzerVars,
      signalVars,
      sizerVars,
      performanceVars>>
exceptOrders ==
    <<riskVars, portfolioVars, smaVars, indicatorVars, vwapVars, analyzerVars,
      signalVars,
      sizerVars,
      performanceVars>>
exceptAnalyzer == <<riskVars, portfolioVars, smaVars, indicatorVars, vwapVars,
      signalVars,
      sizerVars,
      performanceVars>>
exceptSignals ==
    <<riskVars, portfolioVars, smaVars, indicatorVars, vwapVars, orderVars, analyzerVars,
      sizerVars,
      performanceVars>>
exceptPerformance ==
    <<riskVars, portfolioVars, smaVars, indicatorVars, vwapVars, orderVars, analyzerVars,
      signalVars, sizerVars>>
exceptSizer ==
    <<riskVars, portfolioVars, smaVars, indicatorVars, vwapVars, orderVars, analyzerVars,
      signalVars,
      performanceVars>>

----------------------------------------------------------------------------
(* Bounds of the model *)

MaxPriceSteps == 7
MaxQuantity == 2
MaxEquitySteps == 3
MaxSignalSteps == 2
MaxVolatilitySteps == 2
MaxReturned == 2
MaxBars == 4
MaxClose == 2

----------------------------------------------------------------------------
(* Float arithmetic as exact rationals *)

AbsInt(x) == IF x < 0 THEN -x ELSE x

MaxInt(a, b) == IF a >= b THEN a ELSE b

RECURSIVE GCD(_, _)
GCD(a, b) == IF b = 0 THEN a ELSE GCD(b, a % b)

NaN == <<0, 0>>

IsNaN(x) == x[2] = 0

\* n / d as a float value (d # 0 is the caller's duty: Python raises on d = 0)
Rat(n, d) ==
    IF d = 0 THEN NaN
    ELSE LET g == GCD(AbsInt(n), AbsInt(d))
             s == IF d < 0 THEN -1 ELSE 1
         IN  <<(s * n) \div g, (s * d) \div g>>

RECURSIVE LessFrac(_, _, _, _)
\* a / b < c / d for a, c >= 0 and b, d > 0, by the integer parts and then the
\* remainders (no product is formed, so no machine integer overflows)
LessFrac(a, b, c, d) ==
    IF a \div b # c \div d THEN a \div b < c \div d
    ELSE IF c % d = 0 THEN FALSE
    ELSE IF a % b = 0 THEN TRUE
    ELSE LessFrac(d, c % d, b, a % b)

\* a < b; a comparison with nan is False
RatLT(a, b) ==
    /\ ~IsNaN(a)
    /\ ~IsNaN(b)
    /\ IF a[1] < 0 /\ b[1] >= 0 THEN TRUE
       ELSE IF a[1] >= 0 /\ b[1] < 0 THEN FALSE
       ELSE IF a[1] < 0 THEN LessFrac(-b[1], b[2], -a[1], a[2])
       ELSE LessFrac(a[1], a[2], b[1], b[2])

RatGT(a, b) == RatLT(b, a)

RatLE(a, b) == ~IsNaN(a) /\ ~IsNaN(b) /\ ~RatLT(b, a)

RatNeg(a) == <<-a[1], a[2]>>

RatAbs(a) == <<AbsInt(a[1]), a[2]>>

RatAdd(a, b) ==
    IF IsNaN(a) \/ IsNaN(b) THEN NaN ELSE Rat(a[1] * b[2] + b[1] * a[2], a[2] * b[2])

RatSub(a, b) == RatAdd(a, RatNeg(b))

RatMul(a, b) ==
    IF IsNaN(a) \/ IsNaN(b) THEN NaN ELSE Rat(a[1] * b[1], a[2] * b[2])

\* a / b for b # 0
RatDiv(a, b) ==
    IF IsNaN(a) \/ IsNaN(b) THEN NaN ELSE Rat(a[1] * b[2], a[2] * b[1])

\* Python's min(a, b): the first argument unless the second is smaller
RatMin(a, b) == IF RatLT(b, a) THEN b ELSE a

----------------------------------------------------------------------------
(* Risk Manager: TradeBotVWAP._check_risk_management *)

\* prices in dollars, in steps of 20
Prices == {20 * k : k \in 0..MaxPriceSteps}

Quantities == 0..MaxQuantity

\* config.vwap as percentages (stop_loss_percentage = 0.15 is stop_loss_pct = 15)
VWAPConfigs ==
    [stop_loss_pct : {15, 100}, take_profit_pct : {30}, trailing_stop_pct : {10},
     max_position_size : {100, 1000}]

\* the exceptions the handler of _check_risk_management catches
CaughtByRiskHandler == {"KeyError", "ValueError"}

\* what leaves the try block: a return value, or the exception raised in it
RiskOutcome(raised, value) ==
    IF raised = "none" THEN value
    ELSE IF raised \in CaughtByRiskHandler THEN "False"
    ELSE raised

\* line 150: the watermark after a call that got this far
WatermarkOverwritten(highest_price, position_value) == position_value

Watermark(highest_price, position_value) == MaxInt(highest_price, position_value)

\* line 152: the stop-loss test
StopLossIgnored(unrealized_pl, cfg) == FALSE

StopLossTriggered(unrealized_pl, cfg) ==
    RatLT(unrealized_pl, Rat(-cfg.stop_loss_pct, 100))

\* line 156: the take-profit test
TakeProfitTriggered(unrealized_pl, cfg) ==
    RatGT(unrealized_pl, Rat(cfg.take_profit_pct, 100))

\* line 161: the trailing-stop test, for highest # 0
TrailingStopTriggered(highest, position_value, cfg) ==
    RatGT(Rat(highest - position_value, highest), Rat(cfg.trailing_stop_pct, 100))

\* line 168: the position-cap test
MaxPositionSizeAlwaysExceeded(position_value, cfg) == TRUE

MaxPositionSizeExceeded(position_value, cfg) == position_value > cfg.max_position_size

\* the body of _check_risk_management: the outcome and the watermark it leaves
\* on the position.  Both divisions are float divisions, which raise
\* ZeroDivisionError on a zero divisor; the first one precedes the watermark
\* update, the second one follows it.
CheckRiskManagement(current_price, pos, cfg) ==
    LET position_value == current_price * pos.quantity
    IN  IF pos.average_buy_price = 0
        THEN [outcome |-> RiskOutcome("ZeroDivisionError", "none"),
              highest_price |-> pos.highest_price]
        ELSE
          LET unrealized_pl ==
                  Rat(current_price - pos.average_buy_price, pos.average_buy_price)
              highest == Watermark(pos.highest_price, position_value)
              result ==
                  IF StopLossTriggered(unrealized_pl, cfg)
                  THEN RiskOutcome("none", "True")
                  ELSE IF TakeProfitTriggered(unrealized_pl, cfg)
                  THEN RiskOutcome("none", "True")
                  ELSE IF highest = 0
                  THEN RiskOutcome("ZeroDivisionError", "none")
                  ELSE IF TrailingStopTriggered(highest, position_value, cfg)
                  THEN RiskOutcome("none", "True")
                  ELSE IF MaxPositionSizeExceeded(position_value, cfg)
                  THEN RiskOutcome("none", "True")
                  ELSE RiskOutcome("none", "False")
          IN  [outcome |-> result, highest_price |-> highest]

NoCall == [price |-> 0, quantity |-> 0, average_buy_price |-> 0, highest_before |-> 0]

RiskStart ==
    /\ vwap_config \in VWAPConfigs
    /\ position \in [quantity : Quantities, average_buy_price : {0, 100},
                     highest_price : {0}]
    /\ risk_call = NoCall
    /\ risk_result = "none"

\* one call of _check_risk_management(current_price, position)
RiskCheck ==
    \E current_price \in Prices :
        LET r == CheckRiskManagement(current_price, position, vwap_config)
        IN  /\ position' = [position EXCEPT !.highest_price = r.highest_price]
            /\ risk_result' = r.outcome
            /\ risk_call' = [price |-> current_price,
                             quantity |-> position.quantity,
                             average_buy_price |-> position.average_buy_price,
                             highest_before |-> position.highest_price]
            /\ UNCHANGED vwap_config
            /\ UNCHANGED exceptRisk

RiskIdle ==
    /\ vwap_config = CHOOSE c \in VWAPConfigs : TRUE
    /\ position = [quantity |-> 0, average_buy_price |-> 0, highest_price |-> 0]
    /\ risk_call = NoCall
    /\ risk_result = "none"

\* a fill between two evaluations changes the quantity held
Fill ==
    \E q \in Quantities :
        /\ q # position.quantity
        /\ position' = [position EXCEPT !.quantity = q]
        /\ UNCHANGED <<vwap_config, risk_call, risk_result>>
        /\ UNCHANGED exceptRisk

NextRisk == RiskCheck \/ Fill

----------------------------------------------------------------------------
(* PortfolioManager *)

Tickers == {"AAPL", "MSFT"}

\* position equities in dollars, in steps of 50
Equities == {50 * k : k \in 0..MaxEquitySteps}

Capitals == {100, 200}

\* max_position_size: the default 0.2 and a larger fraction
PositionFractions == {Rat(20, 100), Rat(50, 100)}

\* signal strengths in steps of 1/2, and a very large one of either sign
Signals ==
    {Rat(k, 2) : k \in -MaxSignalSteps..MaxSignalSteps} \cup {Rat(100, 1), Rat(-100, 1)}

\* volatilities in steps of 1/2
VolatilitySteps == 0..MaxVolatilitySteps

RiskManagementConfigs == [min_trade_amount : {1}, max_trade_amount : {30}]

RECURSIVE SumOver(_, _)
\* sum(pos.equity for pos in self.positions.values())
SumOver(pos, keys) ==
    IF keys = {} THEN 0
    ELSE LET k == CHOOSE x \in keys : TRUE
         IN  pos[k].equity + SumOver(pos, keys \ {k})

\* what get_portfolio_metrics computes from the manager's fields.  The
\* positions field of the result is the manager's own mapping (the same
\* object, not a copy).
MetricsCashNotReduced(capital, pos) ==
    [total_equity |-> SumOver(pos, DOMAIN pos),
     cash_available |-> capital,
     positions |-> pos,
     sector_exposure |-> <<>>,
     beta_weighted_delta |-> 0,
     sharpe_ratio |-> 0,
     sortino_ratio |-> 0]

PortfolioMetricsOf(capital, pos) ==
    LET total_equity == SumOver(pos, DOMAIN pos)
    IN  [total_equity |-> total_equity,
         cash_available |-> capital - total_equity,
         positions |-> pos,
         sector_exposure |-> <<>>,
         beta_weighted_delta |-> 0,
         sharpe_ratio |-> 0,
         sortino_ratio |-> 0]

\* kelly_percentage, from win_rate = 0.55 and win_loss_ratio = 1.5
KellyInverted ==
    LET win_rate == Rat(55, 100)
        win_loss_ratio == Rat(15, 10)
    IN  RatDiv(RatSub(RatSub(Rat(1, 1), win_rate), RatMul(win_rate, win_loss_ratio)),
               win_loss_ratio)

KellyPercentage ==
    LET win_rate == Rat(55, 100)
        win_loss_ratio == Rat(15, 10)
    IN  RatDiv(RatSub(RatMul(win_rate, win_loss_ratio), RatSub(Rat(1, 1), win_rate)),
               win_loss_ratio)

RECURSIVE VolFactor(_)
\* np.exp(-volatility) for volatility = n / 2, with e^(-1/2) = 0.6065... taken
\* as 3/5: positive, 1 at 0, falling as the volatility grows
VolFactor(n) == IF n = 0 THEN Rat(1, 1) ELSE RatMul(Rat(3, 5), VolFactor(n - 1))

\* min(adjusted_size, max_allowed)
PositionLimitNotApplied(adjusted_size, max_allowed) == adjusted_size

ApplyPositionLimit(adjusted_size, max_allowed) == RatMin(adjusted_size, max_allowed)

\* calculate_position_size(ticker, signal_strength, volatility)
CalculatePositionSize(ticker, signal_strength, n, capital, fraction, pos) ==
    LET portfolio_metrics == PortfolioMetricsOf(capital, pos)
        available_capital == Rat(portfolio_metrics.cash_available, 1)
        base_size == RatMul(RatMul(available_capital, KellyPercentage), VolFactor(n))
        adjusted_size == RatMul(base_size, RatAbs(signal_strength))
        max_allowed == RatMul(available_capital, fraction)
    IN  ApplyPositionLimit(adjusted_size, max_allowed)

NoSizing == [called |-> FALSE, signal_strength |-> Rat(0, 1), volatility |-> 0,
             size |-> Rat(0, 1)]

PortfolioStart ==
    /\ initial_capital \in Capitals
    /\ max_position_size \in PositionFractions
    /\ positions = <<>>
    /\ risk_management \in RiskManagementConfigs
    /\ returned = <<>>
    /\ sizing = NoSizing

PortfolioIdle ==
    /\ initial_capital = 0
    /\ max_position_size = Rat(20, 100)
    /\ positions = <<>>
    /\ risk_management = CHOOSE c \in RiskManagementConfigs : TRUE
    /\ returned = <<>>
    /\ sizing = NoSizing

\* the owner of the mapping changes it to pos
Mutate(pos) ==
    /\ positions' = pos
    /\ returned' = <<>>
    /\ sizing' = NoSizing
    /\ UNCHANGED <<initial_capital, max_position_size, risk_management>>
    /\ UNCHANGED exceptPortfolio

\* an order opens a holding: self.positions[ticker] = Position(...)
AddPosition ==
    \E t \in Tickers \ DOMAIN positions, e \in Equities :
        Mutate([k \in DOMAIN positions \cup {t} |->
                    IF k = t THEN [equity |-> e] ELSE positions[k]])

\* a price refresh or a partial fill changes the equity of a holding
UpdateEquity ==
    \E t \in DOMAIN positions, e \in Equities :
        /\ e # positions[t].equity
        /\ Mutate([positions EXCEPT ![t].equity = e])

\* the holding is closed: del self.positions[ticker]
RemovePosition ==
    \E t \in DOMAIN positions :
        Mutate([k \in DOMAIN positions \ {t} |-> positions[k]])

\* a call of get_portfolio_metrics that also drops the closed holdings
GetPortfolioMetricsPruning ==
    /\ Len(returned) < MaxReturned
    /\ returned' = Append(returned, PortfolioMetricsOf(initial_capital, positions))
    /\ positions' = [k \in {t \in DOMAIN positions : positions[t].equity # 0} |->
                        positions[k]]
    /\ UNCHANGED <<initial_capital, max_position_size, risk_management, sizing>>
    /\ UNCHANGED exceptPortfolio

\* a call of get_portfolio_metrics by the manager's user
GetPortfolioMetrics ==
    /\ Len(returned) < MaxReturned
    /\ returned' = Append(returned, PortfolioMetricsOf(initial_capital, positions))
    /\ UNCHANGED <<initial_capital, max_position_size, positions, risk_management,
                   sizing>>
    /\ UNCHANGED exceptPortfolio

\* a call of calculate_position_size
SizePosition ==
    \E t \in {CHOOSE x \in Tickers : TRUE}, s \in Signals, n \in VolatilitySteps :
        /\ sizing' = [called |-> TRUE, signal_strength |-> s, volatility |-> n,
                      size |-> CalculatePositionSize(t, s, n, initial_capital,
                                                     max_position_size, positions)]
        /\ UNCHANGED <<initial_capital, max_position_size, positions, risk_management,
                       returned>>
        /\ UNCHANGED exceptPortfolio

NextPortfolio ==
    AddPosition \/ UpdateEquity \/ RemovePosition \/ GetPortfolioMetrics \/ SizePosition

----------------------------------------------------------------------------
(* SMA-crossover decision engine: TradeBotSimpleMovingAverage *)

\* (sma_short_period, sma_long_period) as _validate_sma_config admits them
PeriodPairs == {<<1, 2>>, <<2, 3>>}

SMAConfigs ==
    {[sma_short_period |-> p[1], sma_long_period |-> p[2],
      momentum_lookback_period |-> 1,
      momentum_threshold |-> Rat(1, 100),
      threshold_percentage |-> tp,
      enable_dynamic_threshold |-> dyn] :
        p \in PeriodPairs, tp \in {Rat(0, 1), Rat(1, 5), Rat(3, 10)}, dyn \in BOOLEAN}

Closes == 1..MaxClose

\* the annualized std of the log returns where it is neither nan nor 0
PositiveVolatilities == {Rat(1, 10), Rat(3, 10)}

\* round(n / d) for d > 0: to the nearest integer, a tie to the even one
RoundHalfEven(n, d) ==
    LET q == n \div d
        r == n - q * d
    IN  IF 2 * r < d THEN q
        ELSE IF 2 * r > d THEN q + 1
        ELSE IF q % 2 = 0 THEN q ELSE q + 1

\* rolling(window=k, min_periods=1) at the last row: the last k entries of
\* xs, or all of xs when it has fewer
Tail_(xs, k) == SubSeq(xs, MaxInt(1, Len(xs) - k + 1), Len(xs))

RECURSIVE SeqSum(_)
SeqSum(xs) == IF xs = <<>> THEN 0 ELSE Head(xs) + SeqSum(Tail(xs))

RECURSIVE SeqSumSq(_)
SeqSumSq(xs) == IF xs = <<>> THEN 0 ELSE Head(xs) * Head(xs) + SeqSumSq(Tail(xs))

\* line 72 and 83: the rolling mean of the closes (cents) in dollars, rounded
\* to 4 places
RollingMean(closes, period) ==
    LET w == Tail_(closes, period)
    IN  Rat(RoundHalfEven(100 * SeqSum(w), Len(w)), 10000)

RECURSIVE RoundedRoot(_, _, _, _)
\* the k in lo..hi with k - 1/2 <= sqrt(40000 * a / b) < k + 1/2, by bisection
RoundedRoot(a, b, lo, hi) ==
    IF lo = hi THEN lo
    ELSE LET mid == (lo + hi + 1) \div 2
         IN  IF (2 * mid - 1) * (2 * mid - 1) * b <= 40000 * a
             THEN RoundedRoot(a, b, mid, hi)
             ELSE RoundedRoot(a, b, lo, mid - 1)

\* line 73 and 84: the sample std of the window in dollars, rounded to 4
\* places; nan for a window of one close
RollingStd(closes, period) ==
    LET w == Tail_(closes, period)
        n == Len(w)
        a == n * SeqSumSq(w) - SeqSum(w) * SeqSum(w)
        b == n * (n - 1)
    IN  IF n < 2 THEN NaN
        ELSE Rat(RoundedRoot(a, b, 0, 100 * MaxClose), 10000)

\* line 76 and 85: pct_change(lookback) at the last row, rounded to 4 places
Momentum(closes, lookback) ==
    IF Len(closes) <= lookback THEN NaN
    ELSE LET last == closes[Len(closes)]
             prev == closes[Len(closes) - lookback]
         IN  Rat(RoundHalfEven(10000 * (last - prev), prev), 10000)

\* lines 79-80 and 86: the rolling std of the log returns times sqrt(252):
\* nan without `period` log returns (or with a single one), 0 when the
\* returns of the window are all equal, and otherwise a positive number,
\* which the model takes as the argument vol
Volatility(closes, period, vol) ==
    IF Len(closes) < period + 1 \/ period < 2 THEN NaN
    ELSE IF \A i, j \in (Len(closes) - period + 1)..Len(closes) :
                closes[i] * closes[j - 1] = closes[j] * closes[i - 1]
         THEN Rat(0, 1)
         ELSE vol

ZeroIndicators ==
    [sma |-> Rat(0, 1), std |-> Rat(0, 1), momentum |-> Rat(0, 1), volatility |-> Rat(0, 1)]

\* a close_price that pd.to_numeric(errors="coerce") turns into nan
NonNumeric == -1

\* lines 62-65: to_numeric and dropna leave the rows with a numeric close
UsableCloses(column) == SelectSeq(column, LAMBDA c : c # NonNumeric)

\* line 67
InsufficientOnlyIfEmpty(n, period) == n = 0

InsufficientData(n, period) == n < period

\* calculate_technical_indicators(df, period), for a frame with the close_price
\* column `column`
CalculateTechnicalIndicators(column, period, cfg, vol) ==
    IF Len(column) = 0 \/ period = 0 THEN ZeroIndicators
    ELSE LET closes == UsableCloses(column)
         IN  IF InsufficientData(Len(closes), period) THEN ZeroIndicators
             ELSE [sma |-> RollingMean(closes, period),
                   std |-> RollingStd(closes, period),
                   momentum |-> Momentum(closes, cfg.momentum_lookback_period),
                   volatility |-> Volatility(closes, period, vol)]

\* line 111
PriceTrendReversed(short_term, long_term) ==
    RatDiv(RatSub(long_term.sma, short_term.sma), long_term.sma)

PriceTrend(short_term, long_term) ==
    RatDiv(RatSub(short_term.sma, long_term.sma), long_term.sma)

Neutral == [trend_strength |-> Rat(0, 1), signal_strength |-> Rat(0, 1),
            momentum_signal |-> FALSE]

\* line 102: not long_term.get("sma") or long_term["sma"] == 0 (a nan is
\* truthy in Python)
LongSMAAccepted(long_term) == FALSE

LongSMAInvalid(long_term) == long_term.sma = Rat(0, 1)

\* analyze_market_conditions(short_term, long_term)
AnalyzeMarketConditions(short_term, long_term, cfg) ==
    IF LongSMAInvalid(long_term) THEN Neutral
    ELSE IF short_term.sma = Rat(0, 1) THEN Neutral
    ELSE
      LET price_trend == PriceTrend(short_term, long_term)
          volatility_ratio ==
              IF RatGT(long_term.volatility, Rat(0, 1))
              THEN RatDiv(short_term.volatility, long_term.volatility)
              ELSE Rat(1, 1)
      IN  [trend_strength |->
               RatMul(RatAbs(price_trend), RatAdd(Rat(1, 1), volatility_ratio)),
           signal_strength |->
               RatMul(price_trend, RatAdd(Rat(1, 1), RatAbs(short_term.momentum))),
           momentum_signal |-> RatGT(short_term.momentum, cfg.momentum_threshold)]

\* a dynamic threshold that falls as the trend strengthens
ThresholdShrinking(trend_strength, cfg) ==
    IF cfg.enable_dynamic_threshold
    THEN RatMul(cfg.threshold_percentage, RatSub(Rat(1, 1), trend_strength))
    ELSE cfg.threshold_percentage

\* lines 187-191
Threshold(trend_strength, cfg) ==
    IF cfg.enable_dynamic_threshold
    THEN RatMul(cfg.threshold_percentage, RatAdd(Rat(1, 1), trend_strength))
    ELSE cfg.threshold_percentage

\* lines 193-198
DecideIgnoringMomentum(signal_strength, threshold, momentum_signal) ==
    IF RatGT(signal_strength, threshold) THEN "BUY_RECOMMENDATION"
    ELSE IF RatLT(signal_strength, RatNeg(threshold)) THEN "SELL_RECOMMENDATION"
    ELSE "HOLD_RECOMMENDATION"

Decide(signal_strength, threshold, momentum_signal) ==
    IF RatGT(signal_strength, threshold) /\ momentum_signal
    THEN "BUY_RECOMMENDATION"
    ELSE IF \/ RatLT(signal_strength, RatNeg(threshold))
            \/ (RatLT(signal_strength, Rat(0, 1)) /\ ~momentum_signal)
    THEN "SELL_RECOMMENDATION"
    ELSE "HOLD_RECOMMENDATION"

\* the exceptions the handler of make_order_recommendation catches
CaughtByRecommendation == {"EmptyDataError", "KeyError", "ValueError"}

NoEval ==
    [path |-> "none", held |-> FALSE, risk_exit |-> FALSE, computed |-> FALSE,
     short_term |-> ZeroIndicators, long_term |-> ZeroIndicators,
     analysis |-> Neutral, recommendation |-> "none"]

\* line 168: position and self.check_risk_management(current_price, position)
RiskGateOpen(held, risk_exit) == FALSE

RiskGate(held, risk_exit) == held /\ risk_exit

\* make_order_recommendation(ticker).  fetch is what get_stock_history_dataframe
\* does ("ok" or the exception it raises), held whether get_current_positions
\* has the ticker, risk_exit what check_risk_management returns for it, and
\* vol_short, vol_long the volatilities of the two windows where positive.
MakeOrderRecommendation(ticker, fetch, held, risk_exit, vol_short, vol_long, closes, cfg) ==
    IF ticker = "" THEN [NoEval EXCEPT !.path = "no ticker", !.recommendation = "None"]
    ELSE IF fetch # "ok"
    THEN [NoEval EXCEPT !.path = "error",
                        !.recommendation =
                            IF fetch \in CaughtByRecommendation
                            THEN "HOLD_RECOMMENDATION" ELSE fetch]
    ELSE IF RiskGate(held, risk_exit)
    THEN [NoEval EXCEPT !.path = "risk exit", !.held = held, !.risk_exit = risk_exit,
                        !.recommendation = "SELL_RECOMMENDATION"]
    ELSE
      LET short_term ==
              CalculateTechnicalIndicators(closes, cfg.sma_short_period, cfg, vol_short)
          long_term ==
              CalculateTechnicalIndicators(closes, cfg.sma_long_period, cfg, vol_long)
          a == AnalyzeMarketConditions(short_term, long_term, cfg)
          threshold == Threshold(a.trend_strength, cfg)
      IN  [path |-> "signal", held |-> held, risk_exit |-> risk_exit,
           computed |-> TRUE,
           short_term |-> short_term, long_term |-> long_term,
           analysis |-> a,
           recommendation |-> Decide(a.signal_strength, threshold, a.momentum_signal)]

\* _validate_sma_config: the error it raises, or "none"
ValidateAllowingEqualPeriods(cfg) ==
    IF cfg.sma_short_period > cfg.sma_long_period THEN "ValueError"
    ELSE IF cfg.momentum_lookback_period <= 0 THEN "ValueError"
    ELSE "none"

ValidateSMAConfig(cfg) ==
    IF cfg.sma_short_period >= cfg.sma_long_period THEN "ValueError"
    ELSE IF cfg.momentum_lookback_period <= 0 THEN "ValueError"
    ELSE "none"

\* configurations _validate_sma_config turns down: equal periods, short above
\* long, and a momentum lookback of 0
RejectedSMAConfigs ==
    {[c EXCEPT !.sma_short_period = p[1], !.sma_long_period = p[2],
               !.momentum_lookback_period = l] :
        c \in {x \in SMAConfigs : ~x.enable_dynamic_threshold
                                  /\ x.threshold_percentage = Rat(0, 1)
                                  /\ x.sma_short_period = 1},
        p \in {<<1, 2>>, <<2, 2>>, <<3, 2>>}, l \in {0, 1}} \ SMAConfigs

NoTrade ==
    [called |-> FALSE, raised |-> "none", success |-> FALSE, error_message |-> "none",
     amount |-> 0, placed |-> <<>>]

NoTradeCall == [should_trade |-> FALSE, equity |-> 0]

\* the configuration handed to TradeBotSimpleMovingAverage(config)
SMAStart ==
    /\ sma_config \in SMAConfigs \cup RejectedSMAConfigs
    /\ close_prices = <<>>
    /\ sma_bot = "unbuilt"
    /\ sma_eval = NoEval
    /\ trade = NoTrade
    /\ trade_call = NoTradeCall

SMAIdle ==
    /\ sma_config = CHOOSE c \in SMAConfigs : TRUE
    /\ close_prices = <<>>
    /\ sma_bot = "unbuilt"
    /\ sma_eval = NoEval
    /\ trade = NoTrade
    /\ trade_call = NoTradeCall

\* TradeBotSimpleMovingAverage.__init__: the bot exists unless the validation
\* raises
Construct ==
    /\ sma_bot = "unbuilt"
    /\ sma_bot' = IF ValidateSMAConfig(sma_config) = "none" THEN "ready"
                  ELSE ValidateSMAConfig(sma_config)
    /\ UNCHANGED <<sma_config, close_prices, sma_eval, trade, trade_call>>
    /\ UNCHANGED exceptSMA

\* the market-data API has one more bar for the ticker
NewBar ==
    \E c \in Closes :
        /\ Len(close_prices) < MaxBars
        /\ close_prices' = Append(close_prices, c)
        /\ sma_eval' = NoEval
        /\ trade' = NoTrade
        /\ trade_call' = NoTradeCall
        /\ UNCHANGED <<sma_config, sma_bot>>
        /\ UNCHANGED exceptSMA

\* the caller evaluates the ticker once per cycle, a cycle being opened by
\* the construction and by every new bar
CycleOpen == sma_bot = "ready" /\ sma_eval = NoEval /\ trade = NoTrade

Evaluated(e) ==
    /\ CycleOpen
    /\ sma_eval' = e
    /\ trade' = NoTrade
    /\ trade_call' = NoTradeCall
    /\ UNCHANGED <<sma_config, close_prices, sma_bot>>
    /\ UNCHANGED exceptSMA

\* one call of make_order_recommendation: with an empty ticker, with a history
\* fetch that raises, with a position the Risk Manager wants out of, and with
\* none such (no position, or one the Risk Manager leaves alone)
Recommend ==
    \/ Evaluated(MakeOrderRecommendation("", "ok", FALSE, FALSE, NaN, NaN,
                                         close_prices, sma_config))
    \/ Evaluated(MakeOrderRecommendation("AAPL", "EmptyDataError", FALSE, FALSE, NaN, NaN,
                                         close_prices, sma_config))
    \/ Evaluated(MakeOrderRecommendation("AAPL", "ok", TRUE, TRUE, NaN, NaN,
                                         close_prices, sma_config))
    \/ \E held \in BOOLEAN, vol_short \in PositiveVolatilities,
          vol_long \in PositiveVolatilities :
           Evaluated(MakeOrderRecommendation("AAPL", "ok", held, FALSE, vol_short,
                                             vol_long, close_prices, sma_config))

\* position.equity of a held position, in dollars
HeldEquities == {50, 150}

\* what the broker does with an order
BrokerOutcomes == {"filled", "rejected"}

\* place_order of the base class, as the specification describes the broker
\* order API: the order is filled or it fails, and either way an OrderResult
\* comes back
PlaceOrder(side, amount, broker) ==
    [called |-> TRUE, raised |-> "none", success |-> broker = "filled",
     error_message |-> IF broker = "filled" THEN "none" ELSE broker,
     amount |-> amount, placed |-> <<[side |-> side, amount |-> amount]>>]

\* OrderResult(success=..., error_message=..., amount=0.0)
NoOrder(success, error_message) ==
    [called |-> TRUE, raised |-> "none", success |-> success,
     error_message |-> error_message, amount |-> 0, placed |-> <<>>]

CaughtByExecuteTrade == {"EmptyDataError", "KeyError", "ValueError"}

\* lines 240-242: an exception raised inside execute_trade's try block
ExecuteTradeHandler(error) ==
    IF error \in CaughtByExecuteTrade THEN NoOrder(FALSE, error)
    ELSE [called |-> TRUE, raised |-> error, success |-> FALSE,
          error_message |-> "none", amount |-> 0, placed |-> <<>>]

\* lines 227-229 are three statements, "_,", "signal_strength," and
\* "_ = self.analyze_market_conditions(...)": the first reads the local _
\* before the third binds it
ReadUnboundUnderscore == "UnboundLocalError"

\* execute_trade(ticker) placing the sell order of line 236 without the test of
\* line 235
ExecuteTradeSellingUnheld(should_trade, e, fetch, equity, broker) ==
    IF ~should_trade THEN NoOrder(FALSE, "Outside trading hours")
    ELSE IF e.recommendation = "BUY_RECOMMENDATION"
    THEN IF fetch # "ok" THEN ExecuteTradeHandler(fetch)
         ELSE ExecuteTradeHandler(ReadUnboundUnderscore)
    ELSE IF e.recommendation = "SELL_RECOMMENDATION"
    THEN PlaceOrder("SELL_RECOMMENDATION", equity, broker)
    ELSE NoOrder(TRUE, "No trade conditions met")

\* execute_trade(ticker) after make_order_recommendation came back with e;
\* should_trade is what config.should_trade_now answers, fetch what the
\* second get_stock_history_dataframe does, equity the held position's equity
ExecuteTrade(should_trade, e, fetch, equity, broker) ==
    IF ~should_trade THEN NoOrder(FALSE, "Outside trading hours")
    ELSE IF e.recommendation = "BUY_RECOMMENDATION"
    THEN IF fetch # "ok" THEN ExecuteTradeHandler(fetch)
         ELSE ExecuteTradeHandler(ReadUnboundUnderscore)
    ELSE IF e.recommendation = "SELL_RECOMMENDATION" /\ e.held
    THEN PlaceOrder("SELL_RECOMMENDATION", equity, broker)
    ELSE NoOrder(TRUE, "No trade conditions met")

\* position.equity of the position get_current_positions has for the ticker
EquitiesOf(e) == IF e.held THEN HeldEquities ELSE {0}

\* execute_trade inside trading hours, make_order_recommendation having come
\* back with e
Traded(e) ==
    /\ CycleOpen
    /\ sma_eval' = e
    /\ \E fetch \in {"ok", "EmptyDataError"}, equity \in EquitiesOf(sma_eval'),
          broker \in BrokerOutcomes :
           /\ trade' = ExecuteTrade(TRUE, sma_eval', fetch, equity, broker)
           /\ trade_call' = [should_trade |-> TRUE, equity |-> equity]
    /\ UNCHANGED <<sma_config, close_prices, sma_bot>>
    /\ UNCHANGED exceptSMA

\* one call of execute_trade: outside trading hours, and inside them with each
\* of the ways make_order_recommendation can go
ExecuteTradeCall ==
    \/ /\ CycleOpen
       /\ sma_eval' = NoEval
       /\ trade' = ExecuteTrade(FALSE, NoEval, "ok", 0, "filled")
       /\ trade_call' = [should_trade |-> FALSE, equity |-> 0]
       /\ UNCHANGED <<sma_config, close_prices, sma_bot>>
       /\ UNCHANGED exceptSMA
    \/ Traded(MakeOrderRecommendation("", "ok", FALSE, FALSE, NaN, NaN,
                                      close_prices, sma_config))
    \/ Traded(MakeOrderRecommendation("AAPL", "EmptyDataError", FALSE, FALSE, NaN, NaN,
                                      close_prices, sma_config))
    \/ Traded(MakeOrderRecommendation("AAPL", "ok", TRUE, TRUE, NaN, NaN,
                                      close_prices, sma_config))
    \/ \E held \in BOOLEAN, vol_short \in PositiveVolatilities,
          vol_long \in PositiveVolatilities :
           Traded(MakeOrderRecommendation("AAPL", "ok", held, FALSE, vol_short,
                                          vol_long, close_prices, sma_config))

NextSMA == Construct \/ NewBar \/ Recommend \/ ExecuteTradeCall

----------------------------------------------------------------------------
(* calculate_technical_indicators on any frame
   (src/strategies/simple_moving_average.py) *)

MaxRows == 3
MaxPeriod == 3

RECURSIVE SeqsUpTo(_, _)
\* the sequences over S of length at most n
SeqsUpTo(S, n) ==
    IF n = 0 THEN {<<>>}
    ELSE LET shorter == SeqsUpTo(S, n - 1)
         IN  shorter \cup {Append(q, x) : q \in {r \in shorter : Len(r) = n - 1}, x \in S}

\* the df argument: None, a frame without a close_price column (with rows
\* or without), or a frame whose close_price column holds numbers and values
\* that are not numbers
Frames ==
    {[kind |-> "None", rows |-> 0, close_price |-> <<>>]}
    \cup {[kind |-> "no close_price", rows |-> n, close_price |-> <<>>] : n \in 0..1}
    \cup {[kind |-> "frame", rows |-> Len(q), close_price |-> q] :
              q \in SeqsUpTo(Closes \cup {NonNumeric}, MaxRows)}

CaughtByIndicators == {"EmptyDataError", "KeyError", "ValueError"}

\* calculate_technical_indicators(df, period) from its first line to its
\* return: the snapshot, or the exception that leaves it
TechnicalIndicatorsOf(df, period, cfg, vol) ==
    IF df.kind = "None" \/ df.rows = 0 \/ period = 0
    THEN [raised |-> "none", value |-> ZeroIndicators]
    ELSE LET error == IF df.kind = "no close_price" THEN "KeyError" ELSE "none"
         IN  IF error # "none"
             THEN IF error \in CaughtByIndicators
                  THEN [raised |-> "none", value |-> ZeroIndicators]
                  ELSE [raised |-> error, value |-> ZeroIndicators]
             ELSE [raised |-> "none",
                   value |-> CalculateTechnicalIndicators(df.close_price, period, cfg, vol)]

NotCalculated == [called |-> FALSE, raised |-> "none", value |-> ZeroIndicators]

IndicatorsStart ==
    /\ history_df \in Frames
    /\ window_period \in 0..MaxPeriod
    /\ indicators = NotCalculated

IndicatorsIdle ==
    /\ history_df = [kind |-> "None", rows |-> 0, close_price |-> <<>>]
    /\ window_period = 0
    /\ indicators = NotCalculated

\* one call of calculate_technical_indicators(history_df, window_period)
Calculate ==
    \E vol \in PositiveVolatilities :
        LET r == TechnicalIndicatorsOf(history_df, window_period, sma_config, vol)
        IN  /\ indicators' = [called |-> TRUE, raised |-> r.raised, value |-> r.value]
            /\ UNCHANGED <<history_df, window_period>>
            /\ UNCHANGED exceptIndicators

NextIndicators == Calculate

----------------------------------------------------------------------------
(* VWAP decision engine: TradeBotVWAP.calculate_vwap_metrics and
   make_trading_decision (src/strategies/vwap_bot.py) *)

MaxIntradayRows == 2
MaxDailyRows == 2

\* bars of a history frame, prices in dollars
QuietBar == [high_price |-> 100, low_price |-> 100, close_price |-> 100, volume |-> 10]

BusyBar == [high_price |-> 110, low_price |-> 100, close_price |-> 105, volume |-> 30]

UntradedBar == [high_price |-> 100, low_price |-> 100, close_price |-> 100, volume |-> 0]

\* what get_stock_history_dataframe can hand over: a frame without its columns,
\* or a frame with them and any number of rows, none included
HistoryFrames(bars, n) ==
    {[kind |-> "no columns", rows |-> <<>>]}
    \cup {[kind |-> "frame", rows |-> q] : q \in SeqsUpTo(bars, n)}

\* config.vwap.vwap_window, volume_threshold, mean_reversion_threshold and
\* enable_dynamic_threshold
VWAPSignalConfigs ==
    [vwap_window : {2}, volume_threshold : {Rat(1, 1)},
     mean_reversion_threshold : {Rat(1, 10)}, enable_dynamic_threshold : BOOLEAN]

\* the current_price argument, in dollars
CurrentPrices == {80, 95, 120}

\* a standard deviation of values that are not all equal
PositiveDeviations == {Rat(1, 2), Rat(8, 1)}

RECURSIVE CumVol(_, _)
\* line 72: df["volume"].cumsum() at row i
CumVol(rows, i) == IF i = 0 THEN 0 ELSE CumVol(rows, i - 1) + rows[i].volume

RECURSIVE CumVolPrice3(_, _)
\* line 73: three times (typical_price * volume).cumsum() at row i
CumVolPrice3(rows, i) ==
    IF i = 0 THEN 0
    ELSE CumVolPrice3(rows, i - 1)
         + (rows[i].high_price + rows[i].low_price + rows[i].close_price) * rows[i].volume

\* line 75: df["vwap"] at row i; 0 / 0 is nan in pandas
VWAPAt(rows, i) == Rat(CumVolPrice3(rows, i), 3 * CumVol(rows, i))

\* line 78: rolling(window).std() of the vwap column at the last row; dev is
\* its value where the window's values differ
VWAPStd(rows, window, dev) ==
    LET n == Len(rows)
    IN  IF n < window THEN NaN
        ELSE IF \E i \in (n - window + 1)..n : IsNaN(VWAPAt(rows, i)) THEN NaN
        ELSE IF \A i \in (n - window + 1)..n : VWAPAt(rows, i) = VWAPAt(rows, n)
        THEN Rat(0, 1)
        ELSE dev

\* lines 79-80: volume / rolling(window).mean() of the volume at the last row
VolumeRatio(rows, window) ==
    LET n == Len(rows)
    IN  IF n < window THEN NaN
        ELSE Rat(rows[n].volume * window, CumVol(rows, n) - CumVol(rows, n - window))

NoMetrics ==
    [vwap |-> NaN, std_dev |-> NaN, upper_band |-> NaN, lower_band |-> NaN,
     volume_ratio |-> NaN]

CaughtByVWAPMetrics == {"KeyError", "ValueError", "EmptyDataError"}

\* calculate_vwap_metrics(df): the metrics, or the exception that leaves it.
\* A frame without columns raises KeyError at line 68, a frame without rows
\* raises IndexError at line 82 (df.iloc[-1]).
CalculateVWAPMetrics(df, cfg, dev) ==
    LET error == IF df.kind = "no columns" THEN "KeyError"
                 ELSE IF Len(df.rows) = 0 THEN "IndexError"
                 ELSE "none"
    IN  IF error # "none"
        THEN [raised |-> IF error \in CaughtByVWAPMetrics THEN "ValueError" ELSE error,
              value |-> NoMetrics]
        ELSE LET vwap == VWAPAt(df.rows, Len(df.rows))
                 std_dev == VWAPStd(df.rows, cfg.vwap_window, dev)
             IN  [raised |-> "none",
                  value |-> [vwap |-> vwap, std_dev |-> std_dev,
                             upper_band |-> RatAdd(vwap, RatMul(Rat(2, 1), std_dev)),
                             lower_band |-> RatSub(vwap, RatMul(Rat(2, 1), std_dev)),
                             volume_ratio |-> VolumeRatio(df.rows, cfg.vwap_window)]]

\* lines 112-114
VWAPThreshold(metrics, cfg) ==
    IF cfg.enable_dynamic_threshold THEN RatDiv(metrics.std_dev, metrics.vwap)
    ELSE Rat(1, 100)

\* line 116
PriceToVWAP(current_price, metrics) ==
    RatDiv(RatSub(Rat(current_price, 1), metrics.vwap), metrics.vwap)

\* lines 118-137
VWAPDecideIgnoringVolume(current_price, intraday, daily, cfg) ==
    LET threshold == VWAPThreshold(intraday, cfg)
        price_to_vwap == PriceToVWAP(current_price, intraday)
    IN  IF /\ RatLT(price_to_vwap, RatNeg(threshold))
           /\ RatLT(Rat(current_price, 1), daily.lower_band)
           /\ RatLT(RatAbs(price_to_vwap), cfg.mean_reversion_threshold)
        THEN "BUY_RECOMMENDATION"
        ELSE IF /\ RatGT(price_to_vwap, threshold)
                /\ RatGT(Rat(current_price, 1), daily.upper_band)
                /\ RatGT(RatAbs(price_to_vwap), cfg.mean_reversion_threshold)
        THEN "SELL_RECOMMENDATION"
        ELSE "HOLD_RECOMMENDATION"

VWAPDecide(current_price, intraday, daily, cfg) ==
    LET threshold == VWAPThreshold(intraday, cfg)
        price_to_vwap == PriceToVWAP(current_price, intraday)
        sufficient_volume == RatGT(intraday.volume_ratio, cfg.volume_threshold)
    IN  IF /\ RatLT(price_to_vwap, RatNeg(threshold))
           /\ RatLT(Rat(current_price, 1), daily.lower_band)
           /\ sufficient_volume
           /\ RatLT(RatAbs(price_to_vwap), cfg.mean_reversion_threshold)
        THEN "BUY_RECOMMENDATION"
        ELSE IF /\ RatGT(price_to_vwap, threshold)
                /\ RatGT(Rat(current_price, 1), daily.upper_band)
                /\ RatGT(RatAbs(price_to_vwap), cfg.mean_reversion_threshold)
        THEN "SELL_RECOMMENDATION"
        ELSE "HOLD_RECOMMENDATION"

CaughtByTradingDecision == {"ValueError", "EmptyDataError"}

NoDecision ==
    [path |-> "none", raised |-> "none", decision |-> "none", current_price |-> 0,
     fetched |-> FALSE, passed |-> FALSE, position_before |-> [quantity |-> 0, average_buy_price |-> 0,
                                            highest_price |-> 0],
     highest_price |-> 0, intraday |-> NoMetrics, daily |-> NoMetrics]

\* lines 139-141: an exception raised inside make_trading_decision's try block
TradingDecisionHandler(call, error) ==
    IF error \in CaughtByTradingDecision
    THEN [call EXCEPT !.path = "error", !.decision = "HOLD_RECOMMENDATION"]
    ELSE [call EXCEPT !.path = "error", !.raised = error]

\* make_trading_decision(ticker, current_price, position).  fetch is what the
\* two get_stock_history_dataframe calls do, intraday first ("ok" or the
\* exception raised), passed whether a position is handed over, and dev the
\* deviations of the intraday and the daily frame where positive.
MakeTradingDecision(current_price, passed, pos, fetch, dev, risk_cfg, cfg) ==
    LET intraday_fetch == fetch[1]
        daily_fetch == fetch[2]
        intraday_dev == dev[1]
        daily_dev == dev[2]
        call == [NoDecision EXCEPT !.current_price = current_price,
                                   !.passed = passed, !.position_before = pos,
                                   !.highest_price = pos.highest_price]
        intraday_metrics == CalculateVWAPMetrics(intraday_df, cfg, intraday_dev)
        daily_metrics == CalculateVWAPMetrics(daily_df, cfg, daily_dev)
        risk == CheckRiskManagement(current_price, pos, risk_cfg)
    IN  IF intraday_fetch # "ok" THEN TradingDecisionHandler(call, intraday_fetch)
        ELSE IF daily_fetch # "ok" THEN TradingDecisionHandler(call, daily_fetch)
        ELSE IF intraday_metrics.raised # "none"
        THEN TradingDecisionHandler([call EXCEPT !.fetched = TRUE],
                                    intraday_metrics.raised)
        ELSE IF daily_metrics.raised # "none"
        THEN TradingDecisionHandler([call EXCEPT !.fetched = TRUE],
                                    daily_metrics.raised)
        ELSE
          LET measured == [call EXCEPT !.fetched = TRUE,
                                       !.intraday = intraday_metrics.value,
                                       !.daily = daily_metrics.value]
              checked == [measured EXCEPT !.highest_price = risk.highest_price]
          IN  IF passed /\ risk.outcome = "True"
              THEN [checked EXCEPT !.path = "risk exit",
                                   !.decision = "SELL_RECOMMENDATION"]
              ELSE IF passed /\ risk.outcome # "False"
              THEN TradingDecisionHandler(checked, risk.outcome)
              ELSE [(IF passed THEN checked ELSE measured) EXCEPT
                        !.path = "rule",
                        !.decision = VWAPDecide(current_price, intraday_metrics.value,
                                                daily_metrics.value, cfg)]

\* the position of the ticker, the configuration and the two histories the
\* market-data API holds
VWAPStart ==
    /\ vwap_config = [stop_loss_pct |-> 15, take_profit_pct |-> 30,
                      trailing_stop_pct |-> 10, max_position_size |-> 1000]
    /\ position \in [quantity : {1}, average_buy_price : {100}, highest_price : {0, 150}]
    /\ risk_call = NoCall
    /\ risk_result = "none"
    /\ vwap_signal_config \in VWAPSignalConfigs
    /\ intraday_df \in HistoryFrames({QuietBar, BusyBar, UntradedBar}, MaxIntradayRows)
    /\ daily_df \in HistoryFrames({QuietBar, BusyBar}, MaxDailyRows)
    /\ vwap_eval = NoDecision

VWAPIdle ==
    /\ vwap_signal_config = CHOOSE c \in VWAPSignalConfigs : TRUE
    /\ intraday_df = [kind |-> "no columns", rows |-> <<>>]
    /\ daily_df = [kind |-> "no columns", rows |-> <<>>]
    /\ vwap_eval = NoDecision

\* the results make_trading_decision can come to for one price and position
TradingDecisions(current_price, passed) ==
    {MakeTradingDecision(current_price, passed, position, fetch, dev, vwap_config,
                         vwap_signal_config) :
        fetch \in {<<"ok", "ok">>, <<"EmptyDataError", "ok">>, <<"ok", "EmptyDataError">>},
        dev \in PositiveDeviations \X PositiveDeviations}

\* one call of make_trading_decision on the histories as they are, with the
\* watermark update of the risk check it makes
MakeTradingDecisionCall ==
    /\ vwap_eval = NoDecision
    /\ \E current_price \in CurrentPrices, passed \in BOOLEAN :
        \E d \in TradingDecisions(current_price, passed) :
            /\ vwap_eval' = d
            /\ position' = [position EXCEPT !.highest_price = d.highest_price]
            /\ UNCHANGED <<vwap_config, risk_call, risk_result>>
            /\ UNCHANGED <<vwap_signal_config, intraday_df, daily_df>>
            /\ UNCHANGED exceptVWAP

NextVWAP == MakeTradingDecisionCall

----------------------------------------------------------------------------
(* OrderResult (src/data/order_result.py) *)

MaxClock == 5
MaxOrderResults == 3

\* timestamps a caller passes explicitly
GivenTimestamps == {0, 99}

\* the class body runs once, when the module is imported: line 18 evaluates
\* datetime.now(timezone.utc) then and keeps the value as the field's default
OrdersStart ==
    /\ clock = 0
    /\ default_timestamp = clock
    /\ order_results = <<>>

OrdersIdle == OrdersStart

\* time passes
Tick ==
    /\ clock < MaxClock
    /\ clock' = clock + 1
    /\ UNCHANGED <<default_timestamp, order_results>>
    /\ UNCHANGED exceptOrders

\* OrderResult(success=...): the generated __init__ takes the class-level
\* default where no timestamp is passed
NewOrderResult(now, defaulted, given) ==
    [created_at |-> now, defaulted |-> defaulted,
     timestamp |-> IF defaulted THEN default_timestamp ELSE given]

Created(result) ==
    /\ Len(order_results) < MaxOrderResults
    /\ order_results' = Append(order_results, result)
    /\ UNCHANGED <<clock, default_timestamp>>
    /\ UNCHANGED exceptOrders

\* one OrderResult is created, without a timestamp or with one
CreateOrderResult ==
    \/ Created(NewOrderResult(clock, TRUE, 0))
    \/ \E given \in GivenTimestamps : Created(NewOrderResult(clock, FALSE, given))

NextOrders == Tick \/ CreateOrderResult

----------------------------------------------------------------------------
(* PerformanceAnalyzer (src/core/performance_analyzer.py) *)

MaxTrades == 3

\* the trades handed to add_trade: a losing one and a winning one
Trades == [profit_loss : {-10, 10}]

\* lines 39-44: trade_history.append({**trade, "timestamp": datetime.now()})
AddTradeReplacingLedger(history, new_trade, now) ==
    <<[profit_loss |-> new_trade.profit_loss, timestamp |-> now]>>

AddTrade(history, new_trade, now) ==
    Append(history, [profit_loss |-> new_trade.profit_loss, timestamp |-> now])

\* lines 72-83
EmptyPerformanceReport ==
    [total_return |-> Rat(0, 1), sharpe_ratio |-> Rat(0, 1), sortino_ratio |-> Rat(0, 1),
     max_drawdown |-> Rat(0, 1), win_rate |-> Rat(0, 1), profit_factor |-> Rat(0, 1),
     risk_adjusted_return |-> Rat(0, 1), alpha |-> Rat(0, 1), beta |-> Rat(0, 1),
     information_ratio |-> Rat(0, 1)]

\* the trades of a ledger that made a profit
Winning(history) == SelectSeq(history, LAMBDA t : t.profit_loss > 0)

\* a report that divides the winning trades by all trades, whatever the ledger
ReportDividingByTrades(history) ==
    [EmptyPerformanceReport EXCEPT
        !.win_rate = Rat(Len(Winning(history)), Len(history))]

\* get_performance_report(): lines 52-68; the metrics of a ledger with trades
\* are the literal of lines 55-66
GetPerformanceReport(history) ==
    IF Len(history) = 0 THEN EmptyPerformanceReport
    ELSE [total_return |-> Rat(0, 1), sharpe_ratio |-> Rat(0, 1),
          sortino_ratio |-> Rat(0, 1), max_drawdown |-> Rat(0, 1),
          win_rate |-> Rat(0, 1), profit_factor |-> Rat(0, 1),
          risk_adjusted_return |-> Rat(0, 1), alpha |-> Rat(0, 1), beta |-> Rat(0, 1),
          information_ratio |-> Rat(0, 1)]

NoReport == [called |-> FALSE, value |-> EmptyPerformanceReport]

\* PerformanceAnalyzer()
AnalyzerStart ==
    /\ trade_history = <<>>
    /\ added_trades = <<>>
    /\ performance_report = NoReport

AnalyzerIdle == AnalyzerStart

\* one call of add_trade(trade)
AddTradeCall ==
    \E new_trade \in Trades :
        /\ Len(added_trades) < MaxTrades
        /\ trade_history' = AddTrade(trade_history, new_trade, clock)
        /\ added_trades' = Append(added_trades, [trade |-> new_trade, at |-> clock])
        /\ performance_report' = NoReport
        /\ UNCHANGED orderVars
        /\ UNCHANGED exceptAnalyzer

\* one call of get_performance_report()
GetPerformanceReportCall ==
    /\ performance_report' = [called |-> TRUE, value |-> GetPerformanceReport(trade_history)]
    /\ UNCHANGED <<trade_history, added_trades>>
    /\ UNCHANGED orderVars
    /\ UNCHANGED exceptAnalyzer

\* time passes between the calls
NextAnalyzer == Tick \/ AddTradeCall \/ GetPerformanceReportCall

----------------------------------------------------------------------------
(* The indicator functions and the frame of their caller
   (src/strategies/trading_strategies.py, calculate_technical_indicators,
   calculate_vwap_metrics) *)

MaxSeriesRows == 2

\* the columns a caller's frame comes with: those trading_strategies.py reads,
\* those of get_stock_history_dataframe, or both
SeriesColumnSets ==
    {{"close", "volume"},
     {"close_price", "volume", "high_price", "low_price"},
     {"close", "close_price", "volume", "high_price", "low_price"}}

SeriesRows == [close : {1, 2}, volume : {0, 10}]

\* a DataFrame: each column name with its values, one per row
SeriesFrame(columns, rows) ==
    [c \in columns |->
        [i \in 1..Len(rows) |-> IF c = "volume" THEN rows[i].volume ELSE rows[i].close]]

SeriesFrames ==
    {SeriesFrame(columns, q) :
        columns \in SeriesColumnSets, q \in SeqsUpTo(SeriesRows, MaxSeriesRows)}

\* len(df)
RowCount(df) == Len(df[CHOOSE c \in DOMAIN df : TRUE])

\* df[name] = values
SetColumn(df, name, values) ==
    [c \in DOMAIN df \cup {name} |-> IF c = name THEN values ELSE df[c]]

RECURSIVE CumSum(_, _)
\* Series.cumsum() at row i
CumSum(xs, i) == IF i = 0 THEN 0 ELSE CumSum(xs, i - 1) + xs[i]

\* line 30: (df["close"] * df["volume"]).cumsum() / df["volume"].cumsum()
VWAPColumn(df) ==
    LET n == RowCount(df)
        close_volume == [i \in 1..n |-> df["close"][i] * df["volume"][i]]
    IN  [i \in 1..n |-> Rat(CumSum(close_volume, i), CumSum(df["volume"], i))]

\* line 77: df["close_price"].astype(float).pct_change()
ReturnsColumn(df) ==
    LET closes == df["close_price"]
    IN  [i \in 1..RowCount(df) |->
            IF i = 1 THEN NaN ELSE Rat(closes[i] - closes[i - 1], closes[i - 1])]

\* what a call leaves behind: the caller's frame and the error that escaped
SeriesOutcome(df, raised) == [df |-> df, raised |-> raised]

\* a function that only reads df["close"] and then takes .iloc[-1]
ReadsClose(df) ==
    IF "close" \notin DOMAIN df THEN SeriesOutcome(df, "KeyError")
    ELSE IF RowCount(df) = 0 THEN SeriesOutcome(df, "IndexError")
    ELSE SeriesOutcome(df, "none")

\* calculate_sma_signal(df, config): lines 18-25
CalculateSMASignal(df) == ReadsClose(df)

\* calculate_vwap_signal(df, config): line 30 assigns a column of the frame it
\* was handed, then lines 31-32 read the last row
CalculateVWAPSignal(df) ==
    IF ~({"close", "volume"} \subseteq DOMAIN df) THEN SeriesOutcome(df, "KeyError")
    ELSE LET assigned == SetColumn(df, "vwap", VWAPColumn(df))
         IN  IF RowCount(df) = 0 THEN SeriesOutcome(assigned, "IndexError")
             ELSE SeriesOutcome(assigned, "none")

\* calculate_rsi_signal(df, config): lines 44-55
CalculateRSISignal(df) == ReadsClose(df)

\* calculate_macd_signal(df, config): lines 60-69
CalculateMACDSignal(df) == ReadsClose(df)

\* calculate_volatility(df): line 74 returns on an empty frame, line 77 assigns
\* a column of the frame it was handed
CalculateVolatility(df) ==
    IF RowCount(df) = 0 THEN SeriesOutcome(df, "none")
    ELSE IF "close_price" \notin DOMAIN df THEN SeriesOutcome(df, "KeyError")
    ELSE SeriesOutcome(SetColumn(df, "returns", ReturnsColumn(df)), "none")

\* calculate_technical_indicators(df, period): line 61 rebinds df to a copy, and
\* every assignment of lines 62-80 is to the copy; line 89 catches the KeyError
TechnicalIndicatorsOnSeries(df) == SeriesOutcome(df, "none")

\* calculate_vwap_metrics(df): line 65 rebinds df to a copy; a missing column is
\* re-raised as ValueError (line 94), line 82 fails on a frame without rows
VWAPMetricsOnSeries(df) ==
    IF ~({"close_price", "volume", "high_price", "low_price"} \subseteq DOMAIN df)
    THEN SeriesOutcome(df, "ValueError")
    ELSE IF RowCount(df) = 0 THEN SeriesOutcome(df, "IndexError")
    ELSE SeriesOutcome(df, "none")

NoSignalCall == [function |-> "none", raised |-> "none"]

\* a caller builds a frame
SignalsStart ==
    /\ series \in SeriesFrames
    /\ series_given = series
    /\ signal_call = NoSignalCall

SignalsIdle ==
    /\ series = SeriesFrame({"close", "volume"}, <<>>)
    /\ series_given = series
    /\ signal_call = NoSignalCall

\* what a call records: the function and the error that escaped it
SignalCall(function, outcome) == [function |-> function, raised |-> outcome.raised]

\* one call of each indicator function on the caller's frame
CalculateSMASignalCall ==
    /\ series' = CalculateSMASignal(series).df
    /\ signal_call' = SignalCall("calculate_sma_signal", CalculateSMASignal(series))
    /\ UNCHANGED series_given
    /\ UNCHANGED exceptSignals

CalculateVWAPSignalCall ==
    /\ series' = CalculateVWAPSignal(series).df
    /\ signal_call' = SignalCall("calculate_vwap_signal", CalculateVWAPSignal(series))
    /\ UNCHANGED series_given
    /\ UNCHANGED exceptSignals

CalculateRSISignalCall ==
    /\ series' = CalculateRSISignal(series).df
    /\ signal_call' = SignalCall("calculate_rsi_signal", CalculateRSISignal(series))
    /\ UNCHANGED series_given
    /\ UNCHANGED exceptSignals

CalculateMACDSignalCall ==
    /\ series' = CalculateMACDSignal(series).df
    /\ signal_call' = SignalCall("calculate_macd_signal", CalculateMACDSignal(series))
    /\ UNCHANGED series_given
    /\ UNCHANGED exceptSignals

CalculateVolatilityCall ==
    /\ series' = CalculateVolatility(series).df
    /\ signal_call' = SignalCall("calculate_volatility", CalculateVolatility(series))
    /\ UNCHANGED series_given
    /\ UNCHANGED exceptSignals

TechnicalIndicatorsCall ==
    /\ series' = TechnicalIndicatorsOnSeries(series).df
    /\ signal_call' = SignalCall("calculate_technical_indicators", TechnicalIndicatorsOnSeries(series))
    /\ UNCHANGED series_given
    /\ UNCHANGED exceptSignals

VWAPMetricsCall ==
    /\ series' = VWAPMetricsOnSeries(series).df
    /\ signal_call' = SignalCall("calculate_vwap_metrics", VWAPMetricsOnSeries(series))
    /\ UNCHANGED series_given
    /\ UNCHANGED exceptSignals

NextSignals ==
    \/ CalculateSMASignalCall
    \/ CalculateVWAPSignalCall
    \/ CalculateRSISignalCall
    \/ CalculateMACDSignalCall
    \/ CalculateVolatilityCall
    \/ TechnicalIndicatorsCall
    \/ VWAPMetricsCall

----------------------------------------------------------------------------
(* The position size of the SMA strategy
   (TradeBotSimpleMovingAverage.calculate_position_size) *)

MaxCashSteps == 4

\* cash positions: none, less than any minimum trade, and steps of 40 dollars
CashPositions == {0, 2} \cup {40 * k : k \in 1..MaxCashSteps}

TradeLimits == [min_trade_amount : {1, 5}, max_trade_amount : {30, 100}]

\* max(a, b) of Python: b only where b > a
RatMax(a, b) == IF RatGT(b, a) THEN b ELSE a

\* calculate_position_size(ticker, signal_strength): lines 138-150
SMAPositionSize(account_value, signal_strength, limits) ==
    LET max_trade_amount == Rat(limits.max_trade_amount, 1)
        base_position == RatMin(RatMul(Rat(account_value, 1), Rat(25, 100)), max_trade_amount)
        adjusted_position == RatMul(base_position, RatAbs(signal_strength))
    IN  RatMax(RatMin(adjusted_position, max_trade_amount),
               Rat(limits.min_trade_amount, 1))

NoSMASizing == [called |-> FALSE, signal_strength |-> Rat(0, 1), size |-> Rat(0, 1)]

\* an account and a configuration
SizerStart ==
    /\ account_cash \in CashPositions
    /\ trade_limits \in TradeLimits
    /\ sma_sizing = NoSMASizing

SizerIdle ==
    /\ account_cash = 0
    /\ trade_limits = [min_trade_amount |-> 1, max_trade_amount |-> 30]
    /\ sma_sizing = NoSMASizing

\* one call of calculate_position_size
SMAPositionSizeCall ==
    \E signal_strength \in Signals :
        /\ sma_sizing' =
               [called |-> TRUE, signal_strength |-> signal_strength,
                size |-> SMAPositionSize(account_cash, signal_strength, trade_limits)]
        /\ UNCHANGED <<account_cash, trade_limits>>
        /\ UNCHANGED exceptSizer

NextSizer == SMAPositionSizeCall

----------------------------------------------------------------------------
(* The performance counters of the VWAP strategy
   (TradeBotVWAP.update_performance_metrics, _update_advanced_metrics) *)

MaxUpdates == 3

\* the OrderResult values handed in: details is None (the default of the
\* dataclass), a dictionary without "side", or one with it
TradeResults ==
    [price : {10}, amount : {-1, 0, 2}, details : {"None", "no side", "buy"}]

\* lines 45-54
NoPerformance ==
    [total_trades |-> 0, successful_trades |-> 0, failed_trades |-> 0,
     total_profit_loss |-> 0, max_drawdown |-> Rat(0, 1), win_rate |-> Rat(0, 1),
     average_profit_per_trade |-> Rat(0, 1), sharpe_ratio |-> [over |-> <<>>]]

RECURSIVE RunningTotal(_, _)
\* lines 225-226: running_total after the first i trades of the history
RunningTotal(history, i) ==
    IF i = 0 THEN 0 ELSE RunningTotal(history, i - 1) + history[i].profit_loss

\* lines 219-227
EquityCurve(history) == [i \in 1..Len(history) |-> RunningTotal(history, i)]

RECURSIVE PeakAt(_, _)
\* line 228: peak = max(peak, running_total), from 0
PeakAt(curve, i) == IF i = 0 THEN 0 ELSE MaxInt(PeakAt(curve, i - 1), curve[i])

\* line 229
DrawdownAt(curve, i) ==
    IF PeakAt(curve, i) > 0 THEN Rat(PeakAt(curve, i) - curve[i], PeakAt(curve, i))
    ELSE Rat(0, 1)

RECURSIVE MaxDrawdownAt(_, _)
\* line 230: max_drawdown = max(max_drawdown, drawdown), from 0
MaxDrawdownAt(curve, i) ==
    IF i = 0 THEN Rat(0, 1)
    ELSE RatMax(MaxDrawdownAt(curve, i - 1), DrawdownAt(curve, i))

\* _update_advanced_metrics(): lines 209-240.  The Sharpe ratio of lines 234-240
\* is kept as the equity curve it was computed over.
UpdateAdvancedMetrics(metrics, history) ==
    IF metrics.total_trades = 0 THEN metrics
    ELSE LET equity_curve == EquityCurve(history)
         IN  [metrics EXCEPT
                 !.win_rate = Rat(metrics.successful_trades, metrics.total_trades),
                 !.average_profit_per_trade =
                     Rat(metrics.total_profit_loss, metrics.total_trades),
                 !.max_drawdown = MaxDrawdownAt(equity_curve, Len(equity_curve)),
                 !.sharpe_ratio = IF Len(equity_curve) > 1 THEN [over |-> equity_curve]
                                  ELSE metrics.sharpe_ratio]

CaughtByPerformanceUpdate == {"KeyError", "ValueError"}

\* update_performance_metrics(trade_result): lines 180-205.  The counters are
\* updated (lines 181-190) before line 196 reads trade_result.details.get,
\* which None does not have.
UpdatePerformanceMetrics(metrics, history, trade_result, now) ==
    LET profit_loss == trade_result.price * trade_result.amount
        counted ==
            [metrics EXCEPT
                !.total_trades = @ + 1,
                !.successful_trades = IF profit_loss > 0 THEN @ + 1 ELSE @,
                !.failed_trades = IF profit_loss > 0 THEN @ ELSE @ + 1,
                !.total_profit_loss = @ + profit_loss]
        appended ==
            Append(history,
                   [timestamp |-> now, profit_loss |-> profit_loss,
                    type |-> IF trade_result.details = "no side" THEN "unknown"
                             ELSE trade_result.details,
                    price |-> trade_result.price, quantity |-> trade_result.amount])
    IN  IF trade_result.details = "None"
        THEN [metrics |-> counted, history |-> history,
              raised |-> IF "AttributeError" \in CaughtByPerformanceUpdate THEN "none"
                         ELSE "AttributeError"]
        ELSE [metrics |-> UpdateAdvancedMetrics(counted, appended),
              history |-> appended, raised |-> "none"]

NoMetricsCall == [called |-> FALSE, raised |-> "none"]

\* TradeBotVWAP.__init__: lines 45-59
PerformanceStart ==
    /\ performance_metrics = NoPerformance
    /\ vwap_trade_history = <<>>
    /\ metrics_call = NoMetricsCall

PerformanceIdle == PerformanceStart

\* one call of update_performance_metrics(trade_result)
UpdatePerformanceMetricsCall ==
    \E trade_result \in TradeResults :
        LET updated ==
                UpdatePerformanceMetrics(performance_metrics, vwap_trade_history,
                                         trade_result, clock)
        IN  /\ performance_metrics.total_trades < MaxUpdates
            /\ performance_metrics' = updated.metrics
            /\ vwap_trade_history' = updated.history
            /\ metrics_call' = [called |-> TRUE, raised |-> updated.raised]
            /\ UNCHANGED exceptPerformance

NextPerformance == UpdatePerformanceMetricsCall

----------------------------------------------------------------------------
(* Specifications *)

InitRisk == RiskStart /\ PortfolioIdle /\ SMAIdle /\ IndicatorsIdle /\ VWAPIdle /\ OrdersIdle /\ AnalyzerIdle
    /\ SignalsIdle
    /\ SizerIdle
    /\ PerformanceIdle

SpecRisk == InitRisk /\ [][NextRisk]_vars

InitPortfolio == PortfolioStart /\ RiskIdle /\ SMAIdle /\ IndicatorsIdle /\ VWAPIdle /\ OrdersIdle /\ AnalyzerIdle
    /\ SignalsIdle
    /\ SizerIdle
    /\ PerformanceIdle

SpecPortfolio == InitPortfolio /\ [][NextPortfolio]_vars

InitSMA == SMAStart /\ RiskIdle /\ PortfolioIdle /\ IndicatorsIdle /\ VWAPIdle /\ OrdersIdle /\ AnalyzerIdle
    /\ SignalsIdle
    /\ SizerIdle
    /\ PerformanceIdle

SpecSMA == InitSMA /\ [][NextSMA]_vars

InitIndicators == IndicatorsStart /\ RiskIdle /\ PortfolioIdle /\ SMAIdle /\ VWAPIdle /\ OrdersIdle /\ AnalyzerIdle
    /\ SignalsIdle
    /\ SizerIdle
    /\ PerformanceIdle

SpecIndicators == InitIndicators /\ [][NextIndicators]_vars

InitVWAP == VWAPStart /\ PortfolioIdle /\ SMAIdle /\ IndicatorsIdle /\ OrdersIdle /\ AnalyzerIdle
    /\ SignalsIdle
    /\ SizerIdle
    /\ PerformanceIdle

SpecVWAP == InitVWAP /\ [][NextVWAP]_vars

InitOrders ==
    OrdersStart /\ RiskIdle /\ PortfolioIdle /\ SMAIdle /\ IndicatorsIdle /\ VWAPIdle
    /\ AnalyzerIdle
    /\ SignalsIdle
    /\ SizerIdle
    /\ PerformanceIdle

SpecOrders == InitOrders /\ [][NextOrders]_vars

InitAnalyzer ==
    AnalyzerStart /\ OrdersIdle /\ RiskIdle /\ PortfolioIdle /\ SMAIdle /\ IndicatorsIdle
    /\ VWAPIdle
    /\ SignalsIdle
    /\ SizerIdle
    /\ PerformanceIdle

SpecAnalyzer == InitAnalyzer /\ [][NextAnalyzer]_vars

InitSignals ==
    SignalsStart /\ RiskIdle /\ PortfolioIdle /\ SMAIdle /\ IndicatorsIdle /\ VWAPIdle
    /\ OrdersIdle /\ AnalyzerIdle
    /\ SizerIdle
    /\ PerformanceIdle

SpecSignals == InitSignals /\ [][NextSignals]_vars

InitSizer ==
    SizerStart /\ RiskIdle /\ PortfolioIdle /\ SMAIdle /\ IndicatorsIdle /\ VWAPIdle
    /\ OrdersIdle /\ AnalyzerIdle /\ SignalsIdle
    /\ PerformanceIdle

SpecSizer == InitSizer /\ [][NextSizer]_vars

InitPerformance ==
    PerformanceStart /\ RiskIdle /\ PortfolioIdle /\ SMAIdle /\ IndicatorsIdle /\ VWAPIdle
    /\ OrdersIdle /\ AnalyzerIdle /\ SignalsIdle /\ SizerIdle

SpecPerformance == InitPerformance /\ [][NextPerformance]_vars

----------------------------------------------------------------------------
(* Claims about the Risk Manager *)

\* the four trigger conditions of the last call, stated from its arguments
CallValue == risk_call.price * risk_call.quantity

CallHighest == IF risk_call.highest_before >= CallValue
               THEN risk_call.highest_before ELSE CallValue

CallStopLoss ==
    (risk_call.price - risk_call.average_buy_price) * 100
        < -vwap_config.stop_loss_pct * risk_call.average_buy_price

CallTakeProfit ==
    (risk_call.price - risk_call.average_buy_price) * 100
        > vwap_config.take_profit_pct * risk_call.average_buy_price

CallTrailingStop ==
    /\ CallHighest > 0
    /\ (CallHighest - CallValue) * 100 > vwap_config.trailing_stop_pct * CallHighest

CallMaxPosition == CallValue > vwap_config.max_position_size

CallSound ==
    /\ risk_result # "none"
    /\ risk_call.average_buy_price > 0
    /\ risk_call.quantity > 0

\* C1: for a position with average_buy_price > 0 and quantity > 0, the call
\* returns True whenever at least one of the four trigger conditions holds.
C1_ExitOnTrigger ==
    (CallSound /\ (CallStopLoss \/ CallTakeProfit \/ CallTrailingStop \/ CallMaxPosition))
        => risk_result = "True"

\* avg = 100, price = 80, stop_loss = 0.15: exit
C1_Witness ==
    /\ CallSound
    /\ risk_call.average_buy_price = 100
    /\ risk_call.price = 80
    /\ vwap_config.stop_loss_pct = 15
    /\ risk_result = "True"

\* C2: position.highest_price never decreases from one step to the next,
\* whatever the call returns and whatever else happens to the position.
C2_WatermarkMonotonic ==
    [][position'.highest_price >= position.highest_price]_vars

\* a call at a position value below the watermark left the watermark in place
C2_Witness ==
    /\ risk_result # "none"
    /\ risk_call.highest_before > CallValue
    /\ position.highest_price = risk_call.highest_before

\* C3: no exception leaves _check_risk_management: an error inside it makes
\* the call return False.
C3_FailsSafe == risk_result \in {"none", "True", "False"}

CallNoTrigger ==
    ~(CallStopLoss \/ CallTakeProfit \/ CallTrailingStop \/ CallMaxPosition)

TrailingStopFired ==
    /\ risk_result = "True"
    /\ ~CallStopLoss
    /\ ~CallTakeProfit
    /\ CallTrailingStop

\* C28: when a call that returned False and left the watermark at its own
\* position value is followed by a call at the same or a higher price on a smaller, still
\* positive quantity, the second call's trailing-stop trigger does not fire.
C28_TrailingStopOnPriceDeclineOnly ==
    [][(/\ risk_call' # risk_call
        /\ CallSound
        /\ risk_result = "False"
        /\ risk_call.highest_before <= CallValue
        /\ risk_call'.price >= risk_call.price
        /\ risk_call'.average_buy_price = risk_call.average_buy_price
        /\ risk_call'.quantity > 0
        /\ risk_call'.quantity < risk_call.quantity)
           => ~TrailingStopFired']_vars

----------------------------------------------------------------------------
(* Claims about the PortfolioManager *)

\* the equity a ticker contributes: zero when it is not in the mapping
EquityOf(t) == IF t \in DOMAIN positions THEN positions[t].equity ELSE 0

RECURSIVE SumEquity(_)
SumEquity(ts) ==
    IF ts = {} THEN 0
    ELSE LET t == CHOOSE x \in ts : TRUE IN EquityOf(t) + SumEquity(ts \ {t})

\* initial_capital less the equity held
CashNow == initial_capital - SumEquity(Tickers)

\* cash_available * max_position_size
CashCap == RatMul(Rat(CashNow, 1), max_position_size)

C5_NeverNegative == sizing.called => RatLE(Rat(0, 1), sizing.size)

\* C6: the size returned is at most cash_available * max_position_size,
\* however large the signal.
C6_AtMostCashCap == sizing.called => RatLE(sizing.size, CashCap)

\* a very large signal is cut down to the cap
C6_Witness ==
    /\ sizing.called
    /\ CashNow > 0
    /\ RatAbs(sizing.signal_strength) = Rat(100, 1)
    /\ sizing.size = CashCap

C8_MetricsIdempotent ==
    [][/\ Len(returned') > Len(returned)
            => UNCHANGED <<initial_capital, max_position_size, positions>>
       /\ \A i, j \in 1..Len(returned') : returned'[i] = returned'[j]]_vars

\* two calls in a row on a mapping that holds something
C8_Witness ==
    /\ Len(returned) >= 2
    /\ DOMAIN positions # {}

----------------------------------------------------------------------------
(* Claims about the SMA-crossover decision engine *)

\* the snapshots of the history as it stands (sma and momentum do not depend
\* on the volatility argument)
ShortNow ==
    CalculateTechnicalIndicators(close_prices, sma_config.sma_short_period,
                                 sma_config, NaN)

LongNow ==
    CalculateTechnicalIndicators(close_prices, sma_config.sma_long_period,
                                 sma_config, NaN)

\* dynamic thresholding disabled, threshold 0, short SMA above long SMA, and
\* the short-period momentum above momentum_threshold
ConfirmedUptrend ==
    /\ ~sma_config.enable_dynamic_threshold
    /\ sma_config.threshold_percentage = Rat(0, 1)
    /\ RatGT(ShortNow.sma, LongNow.sma)
    /\ RatGT(ShortNow.momentum, sma_config.momentum_threshold)

\* C9, as stated: on a confirmed uptrend make_order_recommendation returns
\* BUY_RECOMMENDATION, never SELL or HOLD (read for the calls that are given
\* a ticker and fetch its history).
C9_AlwaysBuysOnUptrend ==
    (sma_eval.path \in {"signal", "risk exit"} /\ ConfirmedUptrend)
        => sma_eval.recommendation = "BUY_RECOMMENDATION"

\* C9, amended: on a confirmed uptrend whose long-period SMA is positive (the
\* history has sma_long_period bars), a call that is given a ticker, fetches
\* the history and is not forced out by the Risk Manager returns BUY.
C9_BuysOnUptrendWithData ==
    (sma_eval.path = "signal" /\ ConfirmedUptrend /\ RatGT(LongNow.sma, Rat(0, 1)))
        => sma_eval.recommendation = "BUY_RECOMMENDATION"

C9_Witness ==
    /\ sma_eval.path = "signal"
    /\ ConfirmedUptrend
    /\ RatGT(LongNow.sma, Rat(0, 1))
    /\ sma_eval.recommendation = "BUY_RECOMMENDATION"

\* the threshold of the last call: threshold_percentage * (1 + trend_strength)
\* with dynamic thresholding, threshold_percentage without
EvalThreshold ==
    IF sma_config.enable_dynamic_threshold
    THEN RatMul(sma_config.threshold_percentage,
                RatAdd(Rat(1, 1), sma_eval.analysis.trend_strength))
    ELSE sma_config.threshold_percentage

EvalBuy ==
    /\ RatGT(sma_eval.analysis.signal_strength, EvalThreshold)
    /\ sma_eval.analysis.momentum_signal

EvalSell ==
    \/ RatLT(sma_eval.analysis.signal_strength, RatNeg(EvalThreshold))
    \/ /\ RatLT(sma_eval.analysis.signal_strength, Rat(0, 1))
       /\ ~sma_eval.analysis.momentum_signal

\* C10: with no risk exit and no error, the call returns BUY iff
\* signal_strength > threshold and momentum is confirmed; otherwise SELL iff
\* signal_strength < -threshold or (signal_strength < 0 and momentum is not
\* confirmed); otherwise HOLD.
C10_DecisionRule ==
    sma_eval.path = "signal" =>
        /\ sma_eval.recommendation = "BUY_RECOMMENDATION" <=> EvalBuy
        /\ sma_eval.recommendation = "SELL_RECOMMENDATION" <=> (~EvalBuy /\ EvalSell)
        /\ sma_eval.recommendation = "HOLD_RECOMMENDATION" <=> (~EvalBuy /\ ~EvalSell)

\* a signal above the static threshold that the dynamic threshold holds back
C10_Witness ==
    /\ sma_eval.path = "signal"
    /\ sma_config.enable_dynamic_threshold
    /\ sma_eval.analysis.momentum_signal
    /\ RatGT(sma_eval.analysis.signal_strength, sma_config.threshold_percentage)
    /\ sma_eval.recommendation = "HOLD_RECOMMENDATION"

\* C11: when a position in the ticker is held and the Risk Manager reports
\* that it must be closed, make_order_recommendation answers SELL whatever
\* the price series says, and it does so before any indicator is computed.
C11_RiskGateFirst ==
    (sma_eval.path \in {"risk exit", "signal"} /\ sma_eval.held /\ sma_eval.risk_exit)
        => /\ sma_eval.recommendation = "SELL_RECOMMENDATION"
           /\ ~sma_eval.computed

\* a risk exit on a series whose indicators alone say BUY
C11_Witness ==
    /\ sma_eval.path = "risk exit"
    /\ sma_eval.recommendation = "SELL_RECOMMENDATION"
    /\ \E vol \in PositiveVolatilities :
           MakeOrderRecommendation("AAPL", "ok", FALSE, FALSE, vol, vol,
                                   close_prices, sma_config).recommendation
               = "BUY_RECOMMENDATION"

----------------------------------------------------------------------------
(* Claims about calculate_technical_indicators *)

\* the rows of history_df whose close is a number
UsableRows ==
    IF history_df.kind = "frame" THEN Len(UsableCloses(history_df.close_price)) ELSE 0

\* C13: calculate_technical_indicators returns the zeroed snapshot, and raises
\* nothing, when the frame is None, is empty, or has fewer rows with a numeric
\* close than the period.
C13_ZeroedSnapshot ==
    (indicators.called
     /\ (history_df.kind = "None" \/ history_df.rows = 0 \/ UsableRows < window_period))
        => /\ indicators.raised = "none"
           /\ indicators.value = ZeroIndicators

\* a frame with enough rows for the period, too few of them numeric
C13_Witness ==
    /\ indicators.called
    /\ history_df.kind = "frame"
    /\ history_df.rows >= window_period
    /\ UsableRows > 0
    /\ UsableRows < window_period
    /\ indicators.value = ZeroIndicators

----------------------------------------------------------------------------
(* Claims about short series and about construction *)

\* C14: when the long-period snapshot is zeroed, analyze_market_conditions
\* returns (0.0, 0.0, False), and with a threshold_percentage of at least 0
\* and no risk exit the recommendation is HOLD.
C14_NeutralOnShortSeries ==
    (sma_eval.path = "signal" /\ sma_eval.long_term = ZeroIndicators)
        => /\ sma_eval.analysis = Neutral
           /\ sma_eval.recommendation = "HOLD_RECOMMENDATION"

\* the short window is filled and the long one is not
C14_Witness ==
    /\ sma_eval.path = "signal"
    /\ sma_eval.long_term = ZeroIndicators
    /\ sma_eval.short_term # ZeroIndicators
    /\ sma_eval.recommendation = "HOLD_RECOMMENDATION"

\* the configuration breaks one of the two rules of _validate_sma_config
ConfigRejected ==
    \/ sma_config.sma_short_period >= sma_config.sma_long_period
    \/ sma_config.momentum_lookback_period <= 0

\* C20: a configuration whose short period is not below its long period, or
\* whose momentum lookback is not positive, makes the construction raise, so
\* that bot never produces a recommendation.
C20_RejectedAtConstruction ==
    ConfigRejected
        => /\ sma_bot \in {"unbuilt", "ValueError"}
           /\ sma_eval = NoEval

\* the construction has raised on equal periods, with bars on offer
C20_Witness ==
    /\ sma_config.sma_short_period = sma_config.sma_long_period
    /\ sma_config.momentum_lookback_period > 0
    /\ sma_bot = "ValueError"
    /\ Len(close_prices) >= sma_config.sma_long_period

\* C17: execute_trade returns an OrderResult for every outcome of
\* make_order_recommendation and every failure inside it, so no exception
\* crosses the call; the BUY path reaches place_order.
C17_NeverRaises == trade.called => trade.raised = "none"

----------------------------------------------------------------------------
(* Claims about the VWAP decision engine *)

\* the Risk Manager's exit conditions hold for the arguments of the last call
VWAPExitHolds ==
    /\ vwap_eval.passed
    /\ CheckRiskManagement(vwap_eval.current_price, vwap_eval.position_before,
                           vwap_config).outcome = "True"

\* C12: in make_trading_decision, whenever a position is passed and the
\* Risk Manager's exit conditions hold for (current_price, position), the
\* decision is SELL for every state of the intraday and daily histories.
C12_VWAPRiskGateFirst ==
    (vwap_eval.path # "none" /\ vwap_eval.fetched /\ VWAPExitHolds)
        => vwap_eval.decision = "SELL_RECOMMENDATION"

\* a history without rows or without columns
MissingData(df) == df.kind = "no columns" \/ Len(df.rows) = 0

\* C15: when the intraday or the daily history is empty, with its columns or
\* without them, or a history fetch raises EmptyDataError,
\* make_trading_decision returns HOLD and no exception leaves the call.
C15_HoldOnMissingData ==
    (vwap_eval.path # "none"
     /\ (~vwap_eval.fetched \/ MissingData(intraday_df) \/ MissingData(daily_df)))
        => /\ vwap_eval.raised = "none"
           /\ vwap_eval.decision = "HOLD_RECOMMENDATION"

\* the rule of the claim, stated from the metrics of the last call
EvalPriceToVWAP ==
    RatDiv(RatSub(Rat(vwap_eval.current_price, 1), vwap_eval.intraday.vwap),
           vwap_eval.intraday.vwap)

EvalVWAPThreshold ==
    IF vwap_signal_config.enable_dynamic_threshold
    THEN RatDiv(vwap_eval.intraday.std_dev, vwap_eval.intraday.vwap)
    ELSE Rat(1, 100)

EvalVWAPBuy ==
    /\ RatLT(EvalPriceToVWAP, RatNeg(EvalVWAPThreshold))
    /\ RatLT(Rat(vwap_eval.current_price, 1), vwap_eval.daily.lower_band)
    /\ RatGT(vwap_eval.intraday.volume_ratio, vwap_signal_config.volume_threshold)
    /\ RatLT(RatAbs(EvalPriceToVWAP), vwap_signal_config.mean_reversion_threshold)

EvalVWAPSell ==
    /\ RatGT(EvalPriceToVWAP, EvalVWAPThreshold)
    /\ RatGT(Rat(vwap_eval.current_price, 1), vwap_eval.daily.upper_band)
    /\ RatGT(RatAbs(EvalPriceToVWAP), vwap_signal_config.mean_reversion_threshold)

\* C16: with no risk exit and no error, make_trading_decision returns BUY iff
\* price_to_vwap < -threshold, the price is below the daily lower band, the
\* intraday volume ratio is above volume_threshold and |price_to_vwap| is
\* below mean_reversion_threshold; otherwise SELL iff price_to_vwap >
\* threshold, the price is above the daily upper band and |price_to_vwap| is
\* above mean_reversion_threshold; otherwise HOLD.  The threshold is the
\* intraday std_dev / vwap when dynamic and 0.01 otherwise.
C16_VWAPDecisionRule ==
    vwap_eval.path = "rule"
        => vwap_eval.decision = IF EvalVWAPBuy THEN "BUY_RECOMMENDATION"
                                ELSE IF EvalVWAPSell THEN "SELL_RECOMMENDATION"
                                ELSE "HOLD_RECOMMENDATION"

\* a BUY under the dynamic threshold, with a position the Risk Manager keeps
C16_Witness ==
    /\ vwap_eval.path = "rule"
    /\ vwap_eval.passed
    /\ vwap_signal_config.enable_dynamic_threshold
    /\ RatGT(EvalVWAPThreshold, Rat(0, 1))
    /\ vwap_eval.decision = "BUY_RECOMMENDATION"

Recommendations ==
    {"BUY_RECOMMENDATION", "SELL_RECOMMENDATION", "HOLD_RECOMMENDATION"}

\* C18: for every input, an empty ticker, missing data and internal errors
\* included, make_order_recommendation and make_trading_decision return one
\* of BUY, SELL and HOLD and nothing else.
C18_OnlyThreeRecommendations ==
    /\ sma_eval.path # "none" => sma_eval.recommendation \in Recommendations
    /\ vwap_eval.path # "none"
           => /\ vwap_eval.raised = "none"
              /\ vwap_eval.decision \in Recommendations

----------------------------------------------------------------------------
(* Claims about OrderResult *)

\* C19: an OrderResult created without an explicit timestamp carries the time
\* of its creation, so of two created at times t1 < t2 the first carries t1
\* and the second t2.
C19_TimestampAtCreation ==
    \A i \in 1..Len(order_results) :
        order_results[i].defaulted
            => order_results[i].timestamp = order_results[i].created_at

----------------------------------------------------------------------------
(* Claims about the PerformanceAnalyzer *)

\* C21: after any interleaving of add_trade and get_performance_report calls
\* the ledger is the sequence of the trades added, in call order, each with
\* the timestamp of its call: as long as the calls made, no earlier entry
\* changed or removed, and untouched by get_performance_report.
C21_AppendOnlyLedger ==
    /\ Len(trade_history) = Len(added_trades)
    /\ \A i \in 1..Len(added_trades) :
           trade_history[i] = [profit_loss |-> added_trades[i].trade.profit_loss,
                               timestamp |-> added_trades[i].at]

\* two trades added at different times, and a report taken after them
C21_Witness ==
    /\ Len(trade_history) >= 2
    /\ trade_history[1].timestamp < trade_history[2].timestamp
    /\ trade_history[1].profit_loss # trade_history[2].profit_loss
    /\ performance_report.called

\* C22: for a ledger with trades, get_performance_report returns a win_rate of
\* the winning trades over all trades, so a ledger with a winning trade has a
\* win_rate above 0.
C22_WinRate ==
    (performance_report.called /\ Len(trade_history) > 0)
        => performance_report.value.win_rate
               = Rat(Len(Winning(trade_history)), Len(trade_history))

\* C23: when no trade has been added, get_performance_report returns the
\* report whose ten metrics are all 0.0.
C23_EmptyLedgerReport ==
    (performance_report.called /\ Len(added_trades) = 0)
        => \A m \in DOMAIN performance_report.value :
               performance_report.value[m] = Rat(0, 1)

\* a report taken on the empty ledger, some time after construction
C23_Witness ==
    /\ performance_report.called
    /\ Len(added_trades) = 0
    /\ clock > 0
    /\ DOMAIN performance_report.value =
           {"total_return", "sharpe_ratio", "sortino_ratio", "max_drawdown", "win_rate",
            "profit_factor", "risk_adjusted_return", "alpha", "beta", "information_ratio"}

----------------------------------------------------------------------------
(* Claims about the indicator functions *)

\* C24: every indicator function leaves the frame of its caller as the caller
\* built it: no column added, no value altered.
C24_SeriesLeftUnchanged == signal_call.function # "none" => series = series_given

----------------------------------------------------------------------------
(* Claims about the orders of the SMA strategy *)

\* C26: execute_trade places at most one order; none outside trading hours,
\* where it answers success=False, "Outside trading hours", amount 0; none on
\* HOLD or None; and on SELL one sell order for exactly the equity of the held
\* position, or, with no position, no order and success=True with amount 0.
C26_OrderOnlyWhenWarranted ==
    trade.called =>
        /\ Len(trade.placed) <= 1
        /\ ~trade_call.should_trade =>
               trade = NoOrder(FALSE, "Outside trading hours")
        /\ sma_eval.recommendation \in {"HOLD_RECOMMENDATION", "None"} =>
               trade.placed = <<>>
        /\ (trade_call.should_trade /\ sma_eval.recommendation = "SELL_RECOMMENDATION") =>
               IF sma_eval.held
               THEN trade.placed = <<[side |-> "SELL_RECOMMENDATION",
                                      amount |-> trade_call.equity]>>
               ELSE trade.placed = <<>> /\ trade.success /\ trade.amount = 0

\* a sell signal on a held position, sold for its equity
C26_Witness ==
    /\ trade.called
    /\ trade_call.should_trade
    /\ sma_eval.path = "signal"
    /\ sma_eval.recommendation = "SELL_RECOMMENDATION"
    /\ sma_eval.held
    /\ trade.placed = <<[side |-> "SELL_RECOMMENDATION", amount |-> 150]>>

\* a sell signal with no position: nothing is placed
C26_WitnessNoPosition ==
    /\ trade.called
    /\ trade_call.should_trade
    /\ sma_eval.recommendation = "SELL_RECOMMENDATION"
    /\ ~sma_eval.held
    /\ trade.placed = <<>>

\* C27: calculate_position_size of the SMA strategy never returns more than the
\* cash position, whatever the cash and the signal strength.
C27_SizeWithinCash ==
    sma_sizing.called => RatLE(sma_sizing.size, Rat(account_cash, 1))

----------------------------------------------------------------------------
(* Claims about the performance counters of the VWAP strategy *)

\* C29: after any sequence of update_performance_metrics calls, with any
\* OrderResult, total_trades = successful_trades + failed_trades =
\* len(trade_history), win_rate = successful_trades / total_trades where there
\* are trades, and no call has raised.
C29_CountersConsistent ==
    /\ metrics_call.raised = "none"
    /\ performance_metrics.total_trades =
           performance_metrics.successful_trades + performance_metrics.failed_trades
    /\ performance_metrics.total_trades = Len(vwap_trade_history)
    /\ performance_metrics.total_trades > 0 =>
           performance_metrics.win_rate =
               Rat(performance_metrics.successful_trades, performance_metrics.total_trades)

----------------------------------------------------------------------------
(* Claims about the dynamic threshold of the SMA strategy *)

\* what lines 193-196 decide on the same analysis with the threshold left at
\* threshold_percentage
StaticBuy ==
    /\ RatGT(sma_eval.analysis.signal_strength, sma_config.threshold_percentage)
    /\ sma_eval.analysis.momentum_signal

StaticSell ==
    /\ ~StaticBuy
    /\ \/ RatLT(sma_eval.analysis.signal_strength,
                RatNeg(sma_config.threshold_percentage))
       \/ /\ RatLT(sma_eval.analysis.signal_strength, Rat(0, 1))
          /\ ~sma_eval.analysis.momentum_signal

\* C30: with threshold_percentage >= 0, a BUY that make_order_recommendation
\* returns with dynamic thresholding enabled is a BUY with it disabled, and a
\* SELL is a SELL: the dynamic threshold never creates or flips a signal.
C30_DynamicIsConservative ==
    (/\ sma_eval.path = "signal"
     /\ sma_config.enable_dynamic_threshold
     /\ RatLE(Rat(0, 1), sma_config.threshold_percentage)) =>
        /\ sma_eval.recommendation = "BUY_RECOMMENDATION" => StaticBuy
        /\ sma_eval.recommendation = "SELL_RECOMMENDATION" => StaticSell

\* a BUY that passed a dynamic threshold above threshold_percentage
C30_Witness ==
    /\ sma_eval.path = "signal"
    /\ sma_config.enable_dynamic_threshold
    /\ RatGT(EvalThreshold, sma_config.threshold_percentage)
    /\ sma_eval.recommendation = "BUY_RECOMMENDATION"

====
